---------------------------- MODULE Spec2Model ----------------------------
(***************************************************************************)
(* A model of the tlbot package (bot.go and its types): the webhook        *)
(* receiver installed by Bot.Listen and the outbound operations of Bot.    *)
(*                                                                         *)
(* Strings are TLC strings; fmt.Errorf and strconv are computed with \o.   *)
(* A JSON object is a record from its keys to its values.                  *)
(***************************************************************************)
EXTENDS Integers, Sequences, FiniteSets, TLC

(* ------------------------------ bounds -------------------------------- *)

\* Number of webhook deliveries the remote service makes.
MaxReq == 2
\* Number of goroutines that receive from the channel Listen returned.
NumConsumers == 2

Req == 1..MaxReq
Consumers == 1..NumConsumers

(* ------------------------------ JSON ---------------------------------- *)

\* encoding/json leaves a struct field at its zero value when the object
\* has no key matching the field's tag.
Field(obj, key, zero) == IF key \in DOMAIN obj THEN obj[key] ELSE zero

(* ----------------------- inbound: Update, Message --------------------- *)

\* Bodies the remote service (or anyone else) posts to the listener.
HelloBody ==
    [kind |-> "json",
     obj  |-> [update_id |-> 1, message |-> [message_id |-> 5, text |-> "hello"]]]
NoMessageBody == [kind |-> "json", obj |-> [update_id |-> 2]]
MalformedBody == [kind |-> "malformed", obj |-> [raw |-> "{\"update_id\":"]]
NoBody == [kind |-> "none", obj |-> [raw |-> ""]]

Bodies == {HelloBody, NoMessageBody, MalformedBody}

\* type Message: the fields the deliveries of the model populate.
ZeroMessage == [ID |-> 0, Text |-> ""]

DecodeMessage(m) ==
    [ID |-> Field(m, "message_id", 0), Text |-> Field(m, "text", "")]

\* Fault variant of DecodeUpdate: the payload is filled from the update's
\* own id instead of its "message" object.
DecodeUpdateBadPayload(b) ==
    IF b.kind # "json"
    THEN [err |-> TRUE, u |-> [ID |-> 0, Payload |-> ZeroMessage]]
    ELSE [err |-> FALSE,
          u   |-> [ID |-> Field(b.obj, "update_id", 0),
                   Payload |-> [ID   |-> Field(b.obj, "update_id", 0),
                                Text |-> ""]]]

\* json.NewDecoder(req.Body).Decode(&u) with var u Update.
DecodeUpdate(b) ==
    IF b.kind # "json"
    THEN [err |-> TRUE, u |-> [ID |-> 0, Payload |-> ZeroMessage]]
    ELSE [err |-> FALSE,
          u   |-> [ID |-> Field(b.obj, "update_id", 0),
                   Payload |-> IF "message" \in DOMAIN b.obj
                               THEN DecodeMessage(b.obj.message)
                               ELSE ZeroMessage]]

(* ----------------------- outbound: conversions ------------------------ *)

\* const baseURL
baseURL == "https://api.telegram.org/bot"

Digit(d) ==
    CASE d = 0 -> "0" [] d = 1 -> "1" [] d = 2 -> "2" [] d = 3 -> "3"
      [] d = 4 -> "4" [] d = 5 -> "5" [] d = 6 -> "6" [] d = 7 -> "7"
      [] d = 8 -> "8" [] d = 9 -> "9"

RECURSIVE ItoaNat(_)
ItoaNat(n) == IF n < 10 THEN Digit(n) ELSE ItoaNat(n \div 10) \o Digit(n % 10)

\* strconv.Itoa
Itoa(n) == IF n < 0 THEN "-" \o ItoaNat(-n) ELSE ItoaNat(n)

\* strconv.FormatBool
FormatBool(b) == IF b THEN "true" ELSE "false"

\* strconv.FormatFloat(f, 'f', -1, 64): the shortest decimal, no exponent.
\* A coordinate is [neg, whole, frac]: its sign, its integer part and the
\* digits after the point ("" when there are none).
FormatFloat(f) ==
    (IF f.neg THEN "-" ELSE "") \o ItoaNat(f.whole)
        \o (IF f.frac = "" THEN "" ELSE "." \o f.frac)

RECURSIVE JoinComma(_)
JoinComma(parts) ==
    IF parts = << >> THEN ""
    ELSE IF Len(parts) = 1 THEN parts[1]
    ELSE parts[1] \o "," \o JoinComma(Tail(parts))

\* encoding/json of a string (the model's strings need no escaping), of a
\* []string and of a [][]string (nil marshals as null).
JSONString(str) == "\"" \o str \o "\""
JSONRow(row) == "[" \o JoinComma([i \in DOMAIN row |-> JSONString(row[i])]) \o "]"
JSONKeyboard(k) ==
    IF k.isNil THEN "null"
    ELSE "[" \o JoinComma([i \in DOMAIN k.rows |-> JSONRow(k.rows[i])]) \o "]"

\* json.Marshal of the three reply-markup shapes, by their struct tags.
MarshalReplyKeyboardMarkup(m) ==
    "{\"keyboard\":" \o JSONKeyboard(m.Keyboard)
        \o ",\"resize_keyboard\":" \o FormatBool(m.Resize)
        \o ",\"one_time_keyboard\":" \o FormatBool(m.OneTime)
        \o ",\"selective\":" \o FormatBool(m.Selective) \o "}"

MarshalReplyKeyboardHide(m) ==
    "{\"hide_keyboard\":" \o FormatBool(m.Hide)
        \o ",\"selective\":" \o FormatBool(m.Selective) \o "}"

MarshalForceReply(m) ==
    "{\"force_reply\":" \o FormatBool(m.ForceReply)
        \o ",\"selective\":" \o FormatBool(m.Selective) \o "}"

\* type ReplyMarkup, the type of SendOptions.ReplyMarkup: a struct with the
\* fields Keyboard, Resize, OneTime, Selective, Hide and ForceReply, whose
\* serialization is that of the shape it holds (the keyboard first, then
\* hide-keyboard, then force-reply, when several are set).
MarshalReplyMarkup(rm) ==
    IF ~rm.Keyboard.isNil
    THEN MarshalReplyKeyboardMarkup(
             [Keyboard |-> rm.Keyboard, Resize |-> rm.Resize,
              OneTime |-> rm.OneTime, Selective |-> rm.Selective])
    ELSE IF rm.Hide
    THEN MarshalReplyKeyboardHide([Hide |-> rm.Hide, Selective |-> rm.Selective])
    ELSE IF rm.ForceReply
    THEN MarshalForceReply([ForceReply |-> rm.ForceReply, Selective |-> rm.Selective])
    ELSE "{}"

(* ----------------------- outbound: the envelope ----------------------- *)

\* What the network gives back to a request: no response at all
\* ("neterr"), a body that is not JSON ("malformed"), or a JSON object.
NetErr == [kind |-> "neterr", obj |-> [raw |-> ""]]
MalformedResp == [kind |-> "malformed", obj |-> [raw |-> "<html>502</html>"]]
OkResp == [kind |-> "json", obj |-> [ok |-> TRUE]]
OkUserResp ==
    [kind |-> "json",
     obj  |-> [ok |-> TRUE,
               result |-> [id |-> 99, first_name |-> "Echo", username |-> "echobot"]]]
ChatNotFoundResp ==
    [kind |-> "json",
     obj  |-> [ok |-> FALSE, error_code |-> 400,
               description |-> "Bad Request: chat not found"]]
UnauthorizedResp ==
    [kind |-> "json",
     obj  |-> [ok |-> FALSE, error_code |-> 401, description |-> "Unauthorized"]]

\* A JSON value that is not an object is kept with its JSON type, so that
\* a decode into a Go struct can tell it from an object.
JSONTrue == [jsontype |-> "bool", text |-> "true"]
IsObject(v) == "jsontype" \notin DOMAIN v

\* The envelope the remote API answers setWebhook with.
OkTrueResp ==
    [kind |-> "json",
     obj  |-> [ok |-> TRUE, result |-> JSONTrue, description |-> "Webhook was set"]]

Responses ==
    {NetErr, MalformedResp, OkResp, OkUserResp, OkTrueResp, ChatNotFoundResp,
     UnauthorizedResp}

\* type User
ZeroUser == [ID |-> 0, FirstName |-> "", LastName |-> "", Username |-> "", Title |-> ""]

DecodeUser(o) ==
    [ID |-> Field(o, "id", 0), FirstName |-> Field(o, "first_name", ""),
     LastName |-> Field(o, "last_name", ""), Username |-> Field(o, "username", ""),
     Title |-> Field(o, "title", "")]

\* json.NewDecoder(resp.Body).Decode(&r) into the anonymous struct of an
\* operation; codeTag is the json tag that operation gives ErrCode.
DecodeEnvelope(resp, codeTag) ==
    IF resp.kind # "json"
    THEN [err |-> TRUE, OK |-> FALSE, ErrCode |-> 0, Desc |-> ""]
    ELSE [err |-> FALSE,
          OK |-> Field(resp.obj, "ok", FALSE),
          ErrCode |-> Field(resp.obj, codeTag, 0),
          Desc |-> Field(resp.obj, "description", "")]

\* The values an operation returns or raises.
NilError == [kind |-> "nil", type |-> "", msg |-> ""]

\* The *url.Error of net/http for a request that got no response.
TransportError(method, url) ==
    [kind |-> "error", type |-> "*url.Error",
     msg |-> method \o " \"" \o url \o "\": dial tcp: connection refused"]

\* The error of encoding/json for a body that is not JSON.
DecodeError ==
    [kind |-> "error", type |-> "*json.SyntaxError",
     msg |-> "invalid character '<' looking for beginning of value"]

\* The error of encoding/json for a JSON value of a type the Go field
\* cannot take: the result field of getMe's struct is a User.
UnmarshalTypeError(v) ==
    [kind |-> "error", type |-> "*json.UnmarshalTypeError",
     msg |-> "json: cannot unmarshal " \o v.jsontype
             \o " into Go struct field .result of type tlbot.User"]

\* fmt.Errorf(format, ...): the message is spelled out at each use.
Errorf(msg) == [kind |-> "error", type |-> "*errors.errorString", msg |-> msg]

\* fmt.Errorf("%v (%v)", r.Desc, r.ErrCode)
APIError(desc, code) == Errorf(desc \o " (" \o Itoa(code) \o ")")

Panic(msg) == [kind |-> "panic", type |-> "", msg |-> msg]

(* ----------------------- outbound: the operations --------------------- *)

\* One HTTP exchange: the request an operation issued and what came back.
Exchange(method, url, form, resp) ==
    [method |-> method, url |-> url, form |-> form, resp |-> resp]

\* What an operation did: the exchanges it made, in order, and what it
\* returned (or the panic it raised).
Outcome(xch, result) == [xch |-> xch, result |-> result]

\* Decode into the struct of getMe, the one struct with a result field
\* (User User `json:"result"`): the other fields as in every operation, the
\* result into a User, an error when the body is not JSON or the result is
\* not an object.
DecodeGetMe(resp) ==
    LET r == DecodeEnvelope(resp, "error_code")
        given == resp.kind = "json" /\ "result" \in DOMAIN resp.obj
    IN  IF r.err
        THEN [err |-> TRUE, error |-> DecodeError, OK |-> FALSE, ErrCode |-> 0,
              Desc |-> "", User |-> ZeroUser]
        ELSE IF given /\ ~IsObject(resp.obj.result)
        THEN [err |-> TRUE, error |-> UnmarshalTypeError(resp.obj.result),
              OK |-> r.OK, ErrCode |-> r.ErrCode, Desc |-> r.Desc,
              User |-> ZeroUser]
        ELSE [err |-> FALSE, error |-> NilError, OK |-> r.OK,
              ErrCode |-> r.ErrCode, Desc |-> r.Desc,
              User |-> IF given THEN DecodeUser(resp.obj.result) ELSE ZeroUser]

\* Fault variant of getMe: an envelope without a result is an error.
getMeRequiresResult(token, resp) ==
    LET url == baseURL \o token \o "/getMe"
        x   == Exchange("POST", url, [none |-> ""], resp)
        r   == DecodeGetMe(resp)
    IN  IF resp.kind = "neterr"
        THEN [user |-> ZeroUser, out |-> Outcome(<<x>>, TransportError("Post", url))]
        ELSE IF r.err
        THEN [user |-> ZeroUser, out |-> Outcome(<<x>>, r.error)]
        ELSE IF ~r.OK
        THEN [user |-> ZeroUser, out |-> Outcome(<<x>>, APIError(r.Desc, r.ErrCode))]
        ELSE IF "result" \notin DOMAIN resp.obj
        THEN [user |-> ZeroUser, out |-> Outcome(<<x>>, Errorf("no result"))]
        ELSE [user |-> r.User, out |-> Outcome(<<x>>, NilError)]

\* func getMe(token string) (User, error)
getMe(token, resp) ==
    LET url == baseURL \o token \o "/getMe"
        x   == Exchange("POST", url, [none |-> ""], resp)
        r   == DecodeGetMe(resp)
    IN  IF resp.kind = "neterr"
        THEN [user |-> ZeroUser, out |-> Outcome(<<x>>, TransportError("Post", url))]
        ELSE IF r.err
        THEN [user |-> ZeroUser, out |-> Outcome(<<x>>, r.error)]
        ELSE IF ~r.OK
        THEN [user |-> ZeroUser, out |-> Outcome(<<x>>, APIError(r.Desc, r.ErrCode))]
        ELSE [user |-> r.User, out |-> Outcome(<<x>>, NilError)]

\* Fault variant of New: a failed lookup is reported, no Bot is returned.
NewReportsFailure(token, resp) ==
    IF getMe(token, resp).out.result = NilError
    THEN [made |-> TRUE, token |-> token, Info |-> getMe(token, resp).user]
    ELSE [made |-> FALSE, token |-> "", Info |-> ZeroUser]

\* func New(token string) Bot
New(token, resp) ==
    [made |-> TRUE, token |-> token, Info |-> getMe(token, resp).user]

\* func (b Bot) SetWebhook(webhook string) error
SetWebhook(b, webhook, resp) ==
    LET url == baseURL \o b.token \o "/setWebhook"
        x   == Exchange("POST", url, [url |-> webhook], resp)
        r   == DecodeEnvelope(resp, "errorcode")
    IN  IF resp.kind = "neterr" THEN Outcome(<<x>>, TransportError("Post", url))
        ELSE IF r.err THEN Outcome(<<x>>, DecodeError)
        ELSE IF ~r.OK THEN Outcome(<<x>>, APIError(r.Desc, r.ErrCode))
        ELSE Outcome(<<x>>, NilError)

\* Fault variant of ReplyMarkupGiven: any non-nil opts posts reply_markup.
ReplyMarkupGivenWheneverOpts(opts) == ~opts.isNil

\* The test of SendMessage that decides whether reply_markup is posted.
ReplyMarkupGiven(opts) ==
    /\ ~opts.isNil
    /\ \/ ~opts.ReplyMarkup.Keyboard.isNil
       \/ opts.ReplyMarkup.ForceReply
       \/ opts.ReplyMarkup.Hide

\* Fault variant of SendMessageValues: preview is not negated.
SendMessageValuesPreviewNotInverted(recipient, message, mode, preview) ==
    [chat_id |-> Itoa(recipient),
     text |-> message,
     parse_mode |-> mode,
     disable_web_page_preview |-> FormatBool(preview)]

\* The url.Values literal of SendMessage.
SendMessageValues(recipient, message, mode, preview) ==
    [chat_id |-> Itoa(recipient),
     text |-> message,
     parse_mode |-> mode,
     disable_web_page_preview |-> FormatBool(~preview)]

\* func (b Bot) SendMessage(recipient int, message string, mode ParseMode,
\*     preview bool, opts *SendOptions) error
SendMessage(b, recipient, message, mode, preview, opts, resp) ==
    LET url    == baseURL \o b.token \o "/sendMessage"
        values == SendMessageValues(recipient, message, mode, preview)
        form   == IF ReplyMarkupGiven(opts)
                  THEN ("reply_markup" :> MarshalReplyMarkup(opts.ReplyMarkup)) @@ values
                  ELSE values
        x      == Exchange("POST", url, form, resp)
        r      == DecodeEnvelope(resp, "errorcode")
    IN  IF resp.kind = "neterr" THEN Outcome(<<x>>, TransportError("Post", url))
        ELSE IF r.err THEN Outcome(<<x>>, DecodeError)
        ELSE IF ~r.OK THEN Outcome(<<x>>, APIError(r.Desc, r.ErrCode))
        ELSE Outcome(<<x>>, NilError)

\* func (f File) Exists() bool, IsLocal() bool, IsRemote() bool
Exists(f) == f.FileID # ""
IsLocal(f) == f.FilePath # ""
IsRemote(f) == f.FileURL # ""

\* http.Get(url): a URL with no scheme fails before anything is sent.
HTTPGet(url, fetch) ==
    IF url = "" THEN [kind |-> "neterr", status |-> 0, readOK |-> FALSE] ELSE fetch

\* Fault variant of FetchSucceeded: the status is not looked at.
FetchSucceededAnyStatus(fetch) == TRUE

\* The test of SendPhoto on the status of the fetch.
FetchSucceeded(fetch) == fetch.status = 200

\* func (b Bot) SendPhoto(recipient int, photo Photo, caption string,
\*     opts *SendOptions) error
SendPhoto(b, recipient, photo, caption, opts, fetch, resp) ==
    LET got  == HTTPGet(photo.FileURL, fetch)
        g    == Exchange("GET", photo.FileURL, [none |-> ""], got)
        url  == baseURL \o b.token \o "/sendPhoto"
        form == [photo |-> "image.jpg", chat_id |-> Itoa(recipient)]
        x    == Exchange("POST", url, form, resp)
        r    == DecodeEnvelope(resp, "error_code")
    IN  IF Exists(photo)
        THEN Outcome(<< >>, Panic("files reside in telegram servers can not be sent for now."))
        ELSE IF IsLocal(photo)
        THEN Outcome(<< >>, Panic("local files can not be sent for now."))
        ELSE IF got.kind = "neterr"
        THEN Outcome(<<g>>, TransportError("Get", photo.FileURL))
        ELSE IF ~FetchSucceeded(got)
        THEN Outcome(<<g>>,
                 Errorf("Fetch failed (errcode: " \o Itoa(got.status)
                        \o "). Remote URL: '" \o photo.FileURL \o "'"))
        ELSE IF ~got.readOK
        THEN Outcome(<<g>>, [kind |-> "error", type |-> "*net.OpError",
                             msg |-> "read tcp: connection reset by peer"])
        ELSE IF resp.kind = "neterr"
        THEN Outcome(<<g, x>>,
                 Errorf("Error while sending image to Telegram servers: "
                        \o TransportError("Post", url).msg))
        ELSE IF r.err
        THEN Outcome(<<g, x>>,
                 Errorf("Error while decoding response: " \o DecodeError.msg))
        ELSE IF ~r.OK
        THEN Outcome(<<g, x>>,
                 Errorf("Error returned from Telegram servers after sending photo: "
                        \o r.Desc \o " (ErrorCode: " \o Itoa(r.ErrCode) \o ")"))
        ELSE Outcome(<<g, x>>, NilError)

\* forwardMessage, sendAudio, sendDocument, sendSticker, sendVideo, sendVoice
NotImplemented == Outcome(<< >>, Panic("not implemented yet"))

\* func (b Bot) SendLocation(recipient int, location Location,
\*     opts *SendOptions) error
SendLocation(b, recipient, location, resp) ==
    LET url  == baseURL \o b.token \o "/sendLocation"
        form == [chat_id |-> Itoa(recipient),
                 latitude |-> FormatFloat(location.Lat),
                 longitude |-> FormatFloat(location.Long)]
        x    == Exchange("POST", url, form, resp)
        r    == DecodeEnvelope(resp, "errorcode")
    IN  IF resp.kind = "neterr" THEN Outcome(<<x>>, TransportError("Post", url))
        ELSE IF r.err THEN Outcome(<<x>>, DecodeError)
        ELSE IF ~r.OK THEN Outcome(<<x>>, APIError(r.Desc, r.ErrCode))
        ELSE Outcome(<<x>>, NilError)

\* func (b Bot) SendVenue(recipient int, venue Venue, opts *SendOptions) error
SendVenue(b, recipient, venue, resp) ==
    LET url  == baseURL \o b.token \o "/sendVenue"
        form == [chat_id |-> Itoa(recipient),
                 latitude |-> FormatFloat(venue.Location.Lat),
                 longitude |-> FormatFloat(venue.Location.Long),
                 title |-> venue.Title,
                 address |-> venue.Address]
        x    == Exchange("POST", url, form, resp)
        r    == DecodeEnvelope(resp, "errorcode")
    IN  IF resp.kind = "neterr" THEN Outcome(<<x>>, TransportError("Post", url))
        ELSE IF r.err THEN Outcome(<<x>>, DecodeError)
        ELSE IF ~r.OK THEN Outcome(<<x>>, APIError(r.Desc, r.ErrCode))
        ELSE Outcome(<<x>>, NilError)

\* func (b Bot) SendChatAction(recipient int, action Action) error
SendChatAction(b, recipient, action, resp) ==
    LET url  == baseURL \o b.token \o "/sendChatAction"
        form == [chat_id |-> Itoa(recipient), action |-> action]
        x    == Exchange("POST", url, form, resp)
        r    == DecodeEnvelope(resp, "error_code")
    IN  IF resp.kind = "neterr" THEN Outcome(<<x>>, TransportError("Post", url))
        ELSE IF r.err THEN Outcome(<<x>>, NilError)
        ELSE IF ~r.OK THEN Outcome(<<x>>, APIError(r.Desc, r.ErrCode))
        ELSE Outcome(<<x>>, NilError)

(* ----------------------- outbound: the inputs -------------------------- *)

Tokens == {"123:ABC"}
Webhooks == {"https://example.org/hook", ""}
Recipients == {42, 7, -1001}
Texts == {"hi", ""}
\* const ModeNone, ModeMarkdown
ParseModes == {"", "markdown"}
\* const Typing ... FindingLocation
ChatActions ==
    {"typing", "upload_photo", "upload_video", "upload_audio",
     "upload_document", "find_location"}

NilKeyboard == [isNil |-> TRUE, rows |-> << >>]
Keyboards ==
    {NilKeyboard,
     [isNil |-> FALSE, rows |-> << >>],
     [isNil |-> FALSE, rows |-> << <<"yes", "no">>, <<"maybe">> >>]}

ReplyMarkups ==
    [Keyboard : Keyboards, Resize : {FALSE}, OneTime : BOOLEAN,
     Selective : BOOLEAN, Hide : BOOLEAN, ForceReply : BOOLEAN]

ZeroReplyMarkup ==
    [Keyboard |-> NilKeyboard, Resize |-> FALSE, OneTime |-> FALSE,
     Selective |-> FALSE, Hide |-> FALSE, ForceReply |-> FALSE]

\* opts *SendOptions: nil, or a SendOptions value.
NilOpts == [isNil |-> TRUE, ReplyToMessageID |-> 0, ReplyMarkup |-> ZeroReplyMarkup]
SendOptionsValues ==
    {NilOpts} \cup [isNil : {FALSE}, ReplyToMessageID : {0}, ReplyMarkup : ReplyMarkups]

Photos ==
    [FileID : {"", "AgADBAADq6cxG"}, FileURL : {"", "http://i.imgur.com/6S9naG6.png"},
     FilePath : {"", "/tmp/cat.png"}]

\* What the fetch of a photo URL gives back.
FetchStatuses == {200, 201, 204, 206, 304, 404, 500}
FetchResponses ==
    {[kind |-> "neterr", status |-> 0, readOK |-> FALSE]}
    \cup [kind : {"http"}, status : FetchStatuses, readOK : {TRUE}]
    \cup {[kind |-> "http", status |-> 200, readOK |-> FALSE]}

Coord(neg, whole, frac) == [neg |-> neg, whole |-> whole, frac |-> frac]
Locations ==
    {[Lat |-> Coord(FALSE, 41, "0082"), Long |-> Coord(FALSE, 28, "9784")],
     [Lat |-> Coord(TRUE, 33, "5"), Long |-> Coord(TRUE, 70, "")]}
Venues ==
    [Location : Locations, Title : {"Galata"}, Address : {"Beyoglu", ""}]

Unimplemented ==
    {"forwardMessage", "sendAudio", "sendDocument", "sendSticker", "sendVideo", "sendVoice"}

(* ------------------------------ state --------------------------------- *)

VARIABLES
    lstate,     \* the receiver: "idle", "starting", "serving", "exited"
    hst,        \* hst[r]: where the handler goroutine of delivery r is
    body,       \* body[r]: the request body of delivery r
    sendq,      \* handlers blocked in messageCh <- u.Payload, oldest first
    recvd,      \* history: what the consumers received, in order
    status,     \* status[r]: the status written to delivery r (0: none yet)
    logged,     \* logged[r]: the handler logged a decode error
    doneBefore, \* history: the deliveries answered before r arrived
    bot,        \* the Bot value New returned (made = FALSE: not yet)
    cpc,        \* the caller of the outbound operations: "ready",
                \* "returned" (it holds a result), "panicked"
    last,       \* the operation the caller ran last: its name, its
                \* arguments, its exchanges and its result
    hooks,      \* history: per webhook URL, how often SetWebhook ran
                \* against a backend answering ok=true, and what it returned
    lookups     \* history: the outcomes of the identity lookups (getMe)

rvars == <<lstate, hst, body, sendq, recvd, status, logged, doneBefore>>
hvars == <<hooks, lookups>>
dvars == <<bot, cpc, last, hvars>>

vars == <<rvars, dvars>>

Alive == lstate # "exited"

InSendq(r) == \E i \in DOMAIN sendq : sendq[i].req = r
Received(r) == \E i \in DOMAIN recvd : recvd[i].req = r

RInit ==
    /\ lstate = "idle"
    /\ hst = [r \in Req |-> "none"]
    /\ body = [r \in Req |-> NoBody]
    /\ sendq = << >>
    /\ recvd = << >>
    /\ status = [r \in Req |-> 0]
    /\ logged = [r \in Req |-> FALSE]
    /\ doneBefore = [r \in Req |-> {}]

(* ----------------------------- Bot.Listen ------------------------------ *)

\* Listen makes the unbuffered channel, installs the handler, starts the
\* serving goroutine and returns the channel at once.
Listen ==
    /\ lstate = "idle"
    /\ lstate' = "starting"
    /\ UNCHANGED <<hst, body, sendq, recvd, status, logged, doneBefore, dvars>>

\* http.ListenAndServe bound the address and accepts connections.
Bind ==
    /\ lstate = "starting"
    /\ lstate' = "serving"
    /\ UNCHANGED <<hst, body, sendq, recvd, status, logged, doneBefore, dvars>>

\* Fault variant of ListenAndServeReturns: the goroutine prints the error
\* and ends without os.Exit, so the listener is gone and the process and
\* its consumers live on.
ListenAndServeReturnsNoExit ==
    /\ lstate \in {"starting", "serving"}
    /\ lstate' = "stopped"
    /\ UNCHANGED <<hst, body, sendq, recvd, status, logged, doneBefore, dvars>>

\* http.ListenAndServe returned (it failed to bind, or stopped serving):
\* the goroutine prints the error and calls os.Exit(1).
ListenAndServeReturns ==
    /\ lstate \in {"starting", "serving"}
    /\ lstate' = "exited"
    /\ UNCHANGED <<hst, body, sendq, recvd, status, logged, doneBefore, dvars>>

\* Delivery r reaches the listener; net/http runs the handler in a
\* goroutine of its own.  Deliveries are numbered in arrival order.
Arrive(b) ==
    /\ lstate = "serving"
    /\ \E r \in Req :
        /\ hst[r] = "none"
        /\ \A q \in Req : q < r => hst[q] # "none"
        /\ hst' = [hst EXCEPT ![r] = "decoding"]
        /\ body' = [body EXCEPT ![r] = b]
        /\ doneBefore' = [doneBefore EXCEPT ![r] = {q \in Req : hst[q] = "done"}]
    /\ UNCHANGED <<lstate, sendq, recvd, status, logged, dvars>>

\* Fault variant of HandlerDecode: the return after the log is missing, so
\* the zero Message is sent after a decode error.
HandlerDecodeNoReturn(r) ==
    /\ Alive
    /\ hst[r] = "decoding"
    /\ LET d == DecodeUpdate(body[r]) IN
        /\ logged' = [logged EXCEPT ![r] = d.err]
        /\ hst' = [hst EXCEPT ![r] = "sending"]
        /\ sendq' = Append(sendq, [req |-> r, msg |-> d.u.Payload])
    /\ UNCHANGED <<lstate, body, recvd, status, doneBefore, dvars>>

\* Fault variant of HandlerDecode: the channel has a buffer, so the send
\* does not wait for a consumer.
HandlerDecodeBuffered(r) ==
    /\ Alive
    /\ hst[r] = "decoding"
    /\ LET d == DecodeUpdate(body[r]) IN
        IF d.err
        THEN /\ logged' = [logged EXCEPT ![r] = TRUE]
             /\ UNCHANGED sendq
        ELSE /\ sendq' = Append(sendq, [req |-> r, msg |-> d.u.Payload])
             /\ UNCHANGED logged
    /\ hst' = [hst EXCEPT ![r] = "returning"]
    /\ UNCHANGED <<lstate, body, recvd, status, doneBefore, dvars>>

\* The handler up to the channel send: a decode error is logged and the
\* handler returns; otherwise it blocks in messageCh <- u.Payload.
HandlerDecode(r) ==
    /\ Alive
    /\ hst[r] = "decoding"
    /\ LET d == DecodeUpdate(body[r]) IN
        IF d.err
        THEN /\ logged' = [logged EXCEPT ![r] = TRUE]
             /\ hst' = [hst EXCEPT ![r] = "returning"]
             /\ UNCHANGED sendq
        ELSE /\ hst' = [hst EXCEPT ![r] = "sending"]
             /\ sendq' = Append(sendq, [req |-> r, msg |-> d.u.Payload])
             /\ UNCHANGED logged
    /\ UNCHANGED <<lstate, body, recvd, status, doneBefore, dvars>>

\* Fault variant of Recv: the sender stays queued, so its Message can be
\* received again.
RecvKeepsSender(c) ==
    /\ Alive
    /\ sendq # << >>
    /\ recvd' = Append(recvd, [req |-> Head(sendq).req, msg |-> Head(sendq).msg, by |-> c])
    /\ hst' = [hst EXCEPT ![Head(sendq).req] = "returning"]
    /\ UNCHANGED <<lstate, body, sendq, status, logged, doneBefore, dvars>>

\* A consumer receives from the channel: the rendezvous with the handler
\* that has waited longest (the runtime queues blocked senders first in,
\* first out).  The send statement of that handler completes.
Recv(c) ==
    /\ Alive
    /\ sendq # << >>
    /\ recvd' = Append(recvd, [req |-> Head(sendq).req, msg |-> Head(sendq).msg, by |-> c])
    /\ sendq' = Tail(sendq)
    /\ hst' = [hst EXCEPT ![Head(sendq).req] = "returning"]
    /\ UNCHANGED <<lstate, body, status, logged, doneBefore, dvars>>

\* The handler returns and the deferred w.WriteHeader(http.StatusOK) runs.
StatusOK == 200

Respond(r) ==
    /\ Alive
    /\ hst[r] = "returning"
    /\ hst' = [hst EXCEPT ![r] = "done"]
    /\ status' = [status EXCEPT ![r] = StatusOK]
    /\ UNCHANGED <<lstate, body, sendq, recvd, logged, doneBefore, dvars>>

ReceiverNext ==
    \/ Listen
    \/ Bind
    \/ ListenAndServeReturns
    \/ \E b \in Bodies : Arrive(b)
    \/ \E r \in Req : HandlerDecode(r)
    \/ \E c \in Consumers : Recv(c)
    \/ \E r \in Req : Respond(r)

(* ------------------------ the caller of the Bot ------------------------ *)

NoBot == [made |-> FALSE, token |-> "", Info |-> ZeroUser]
NoCall == [op |-> "", args |-> [none |-> ""], xch |-> << >>, result |-> NilError]

NoHooks == [w \in Webhooks |-> [n |-> "never", results |-> {}]]

DInit ==
    /\ bot = NoBot
    /\ cpc = "ready"
    /\ last = NoCall
    /\ hooks = NoHooks
    /\ lookups = << >>

\* The caller runs an operation to its end: it returns a value, or it
\* panics, and nothing recovers the panic.
Ran(op, args, out) ==
    /\ last' = [op |-> op, args |-> args, xch |-> out.xch, result |-> out.result]
    /\ cpc' = IF out.result.kind = "panic" THEN "panicked" ELSE "returned"

CallNew ==
    /\ cpc = "ready" /\ ~bot.made
    /\ \E token \in Tokens, resp \in Responses :
        /\ bot' = New(token, resp)
        /\ Ran("getMe", [token |-> token], getMe(token, resp).out)
        /\ lookups' = Append(lookups, getMe(token, resp).out)
    /\ UNCHANGED <<rvars, hooks>>

\* What the history keeps of a SetWebhook call answered ok=true.
Noted(h, webhook, resp, out) ==
    IF resp.kind = "json" /\ Field(resp.obj, "ok", FALSE)
    THEN [h EXCEPT ![webhook] =
             [n |-> IF h[webhook].n = "never" THEN "once" ELSE "repeated",
              results |-> h[webhook].results \cup {out.result}]]
    ELSE h

\* Fault variant of CallSetWebhook: the method has a pointer receiver and
\* keeps the URL it registered in the Bot.
CallSetWebhookKeepsURL ==
    /\ cpc = "ready" /\ bot.made
    /\ \E webhook \in Webhooks, resp \in Responses :
        /\ Ran("SetWebhook", [webhook |-> webhook], SetWebhook(bot, webhook, resp))
        /\ hooks' = Noted(hooks, webhook, resp, SetWebhook(bot, webhook, resp))
        /\ bot' = [bot EXCEPT !.token = bot.token \o "@" \o webhook]
    /\ UNCHANGED <<rvars, lookups>>

CallSetWebhook ==
    /\ cpc = "ready" /\ bot.made
    /\ \E webhook \in Webhooks, resp \in Responses :
        /\ Ran("SetWebhook", [webhook |-> webhook], SetWebhook(bot, webhook, resp))
        /\ hooks' = Noted(hooks, webhook, resp, SetWebhook(bot, webhook, resp))
    /\ UNCHANGED <<bot, rvars, lookups>>

CallSendMessage ==
    /\ cpc = "ready" /\ bot.made
    /\ \E recipient \in Recipients, message \in Texts, mode \in ParseModes,
          preview \in BOOLEAN, opts \in SendOptionsValues, resp \in Responses :
        Ran("SendMessage",
            [recipient |-> recipient, message |-> message, mode |-> mode,
             preview |-> preview, opts |-> opts],
            SendMessage(bot, recipient, message, mode, preview, opts, resp))
    /\ UNCHANGED <<bot, rvars, hvars>>

CallSendPhoto ==
    /\ cpc = "ready" /\ bot.made
    /\ \E recipient \in Recipients, photo \in Photos, fetch \in FetchResponses,
          resp \in Responses :
        Ran("SendPhoto", [recipient |-> recipient, photo |-> photo],
            SendPhoto(bot, recipient, photo, "sample image", NilOpts, fetch, resp))
    /\ UNCHANGED <<bot, rvars, hvars>>

CallUnimplemented ==
    /\ cpc = "ready" /\ bot.made
    /\ \E op \in Unimplemented : Ran(op, [none |-> ""], NotImplemented)
    /\ UNCHANGED <<bot, rvars, hvars>>

CallSendLocation ==
    /\ cpc = "ready" /\ bot.made
    /\ \E recipient \in Recipients, location \in Locations, resp \in Responses :
        Ran("SendLocation", [recipient |-> recipient, location |-> location],
            SendLocation(bot, recipient, location, resp))
    /\ UNCHANGED <<bot, rvars, hvars>>

CallSendVenue ==
    /\ cpc = "ready" /\ bot.made
    /\ \E recipient \in Recipients, venue \in Venues, resp \in Responses :
        Ran("SendVenue", [recipient |-> recipient, venue |-> venue],
            SendVenue(bot, recipient, venue, resp))
    /\ UNCHANGED <<bot, rvars, hvars>>

CallSendChatAction ==
    /\ cpc = "ready" /\ bot.made
    /\ \E recipient \in Recipients, action \in ChatActions, resp \in Responses :
        Ran("SendChatAction", [recipient |-> recipient, action |-> action],
            SendChatAction(bot, recipient, action, resp))
    /\ UNCHANGED <<bot, rvars, hvars>>

\* The caller has looked at the result and is ready for its next call.
Continue ==
    /\ cpc = "returned"
    /\ cpc' = "ready"
    /\ last' = NoCall
    /\ UNCHANGED <<bot, rvars, hvars>>

DispatcherNext ==
    \/ CallNew
    \/ CallSetWebhook
    \/ CallSendMessage
    \/ CallSendPhoto
    \/ CallUnimplemented
    \/ CallSendLocation
    \/ CallSendVenue
    \/ CallSendChatAction
    \/ Continue

Init == RInit /\ DInit

ReceiverSpec == Init /\ [][ReceiverNext]_vars

DispatcherSpec == Init /\ [][DispatcherNext]_vars

\* The Go scheduler runs every runnable goroutine: a handler that can
\* decode or return eventually does.  Nothing obliges a consumer to receive.
ReceiverFairSpec ==
    /\ ReceiverSpec
    /\ \A r \in Req : WF_vars(HandlerDecode(r)) /\ WF_vars(Respond(r))


(* ------------------------- claims: the receiver ------------------------ *)

Malformed(r) == hst[r] # "none" /\ DecodeUpdate(body[r]).err
Decodes(r) == hst[r] # "none" /\ ~DecodeUpdate(body[r]).err

NextToArrive(r) == hst[r] = "none" /\ \A q \in Req : q < r => hst[q] # "none"

\* C1: a delivery whose body fails to decode puts nothing on the channel
\* (no blocked send, nothing received from it), its handler is never blocked
\* on the channel and can always return, the only status it writes is
\* 200 OK, once it has returned the status is 200 OK, and the receiver goes
\* on accepting the next delivery.
C1_MalformedAnswered200NothingPublished ==
    \A r \in Req : Malformed(r) =>
        /\ ~InSendq(r)
        /\ ~Received(r)
        /\ hst[r] # "sending"
        /\ status[r] \in {0, 200}
        /\ (hst[r] = "done" => status[r] = 200 /\ logged[r])
        /\ (Alive /\ hst[r] = "returning" => ENABLED Respond(r))
        /\ \A q \in Req :
             (lstate = "serving" /\ NextToArrive(q)) =>
                 ENABLED Arrive(HelloBody)

\* A malformed delivery was answered 200 and a later delivery was served
\* and answered too.
C1_Witness ==
    \E r, q \in Req :
        /\ r < q
        /\ Malformed(r) /\ hst[r] = "done" /\ status[r] = 200
        /\ hst[q] = "done"

\* C2: a delivery whose body decodes is answered 200 only after a consumer
\* has received its Message, exactly once, and the Message received is
\* Update.Payload of the body: ID 5 and text "hello" for the body
\* {"update_id":1,"message":{"message_id":5,"text":"hello"}}, the zero
\* Message for a body with no "message" key.
C2_PublishThenRespond ==
    \A r \in Req : Decodes(r) =>
        /\ (status[r] # 0 =>
               /\ status[r] = 200
               /\ Cardinality({i \in DOMAIN recvd : recvd[i].req = r}) = 1)
        /\ \A i \in DOMAIN recvd : recvd[i].req = r =>
               /\ body[r] = HelloBody => recvd[i].msg = [ID |-> 5, Text |-> "hello"]
               /\ body[r] = NoMessageBody => recvd[i].msg = [ID |-> 0, Text |-> ""]
        /\ \A i \in DOMAIN sendq : sendq[i].req = r =>
               /\ body[r] = HelloBody => sendq[i].msg = [ID |-> 5, Text |-> "hello"]
               /\ body[r] = NoMessageBody => sendq[i].msg = [ID |-> 0, Text |-> ""]

\* The scenario delivery was received with ID 5 and text "hello" and then
\* answered 200.
C2_Witness ==
    \E r \in Req :
        /\ body[r] = HelloBody
        /\ status[r] = 200
        /\ \E i \in DOMAIN recvd :
               recvd[i].req = r /\ recvd[i].msg.ID = 5 /\ recvd[i].msg.Text = "hello"

\* C3: the channel has no buffer.  A handler that has decoded its delivery
\* stays blocked in the send, unanswered and unable to return, with its
\* Message still pending; the only step that takes it out of the send is a
\* consumer receiving that very Message; and once a consumer has received
\* it the handler eventually answers 200 (unless the process has exited).
C3_Blocked ==
    \A r \in Req : hst[r] = "sending" =>
        /\ InSendq(r)
        /\ ~Received(r)
        /\ status[r] = 0
        /\ ~ENABLED Respond(r)

C3_OnlyARecvUnblocks ==
    \A r \in Req :
        (hst[r] = "sending" /\ hst'[r] # "sending") =>
            /\ Len(recvd') = Len(recvd) + 1
            /\ recvd'[Len(recvd')].req = r
            /\ recvd'[Len(recvd')].msg = DecodeUpdate(body[r]).u.Payload
            /\ hst'[r] = "returning"

C3_BlockingRendezvous ==
    /\ [](C3_Blocked /\ \A r \in Req : Decodes(r) /\ status[r] # 0 => Received(r))
    /\ [][C3_OnlyARecvUnblocks]_vars
    /\ \A r \in Req :
         (Received(r) /\ hst[r] = "returning") ~> (status[r] = 200 \/ ~Alive)

\* Two decoded deliveries are blocked in the send at once, none answered,
\* while no consumer has received anything.
C3_Witness ==
    \E r, q \in Req :
        /\ r # q
        /\ hst[r] = "sending" /\ hst[q] = "sending"
        /\ status[r] = 0 /\ status[q] = 0
        /\ recvd = << >>

\* C4 as claimed: no Message is received twice, and the Messages are
\* received in the order in which their deliveries arrived.
C4_ReceivedInArrivalOrder ==
    \A i, j \in DOMAIN recvd :
        i < j => recvd[i].req < recvd[j].req

\* C4 as amended: no Message is received twice (so by one consumer only),
\* only Messages of decoded deliveries are received, and a delivery that was
\* answered before another arrived is received before that other one.
C4_AtMostOnceSequentialOrder ==
    /\ \A i, j \in DOMAIN recvd : recvd[i].req = recvd[j].req => i = j
    /\ \A i \in DOMAIN recvd : Decodes(recvd[i].req)
    /\ \A i, j \in DOMAIN recvd :
         recvd[i].req \in doneBefore[recvd[j].req] => i < j

\* Two deliveries handled one after the other were received by two
\* different consumers, in arrival order.
C4_Witness ==
    \E i, j \in DOMAIN recvd :
        /\ i < j
        /\ recvd[i].req \in doneBefore[recvd[j].req]
        /\ recvd[i].by # recvd[j].by


(* ------------------------ claims: the dispatcher ----------------------- *)

\* The exchanges of the last operation with the remote API (the fetch of a
\* photo is the only GET).
ApiExchanges == {i \in DOMAIN last.xch : last.xch[i].method = "POST"}

RefusedByAPI(x) == x.resp.kind = "json" /\ ~Field(x.resp.obj, "ok", FALSE)

\* C5: whenever the remote API answered an operation with an envelope with
\* ok=false, the operation returned an error whose message is exactly
\* "<description> (<code>)", with the description and the error code of
\* that envelope.
C5_ApiErrorMessage ==
    \A i \in ApiExchanges :
        RefusedByAPI(last.xch[i]) =>
            /\ last.result.kind = "error"
            /\ last.result.msg =
                   Field(last.xch[i].resp.obj, "description", "") \o " ("
                   \o ToString(Field(last.xch[i].resp.obj, "error_code", 0)) \o ")"

\* C6: whenever the remote API answered an operation with a body that is
\* not an envelope, the operation returned a non-nil error, and not the
\* error of an ok=false envelope.
C6_MalformedResponseIsError ==
    \A i \in ApiExchanges :
        last.xch[i].resp.kind = "malformed" =>
            /\ last.result.kind = "error"
            /\ last.result.msg # APIError("", 0).msg

UnsupportedCall ==
    \/ last.op \in Unimplemented
    \/ /\ last.op = "SendPhoto"
       /\ Exists(last.args.photo) \/ IsLocal(last.args.photo)

\* C8: an unimplemented send variant, and SendPhoto with a photo that has a
\* FileID or a FilePath, returns an error to its caller, having made no
\* network call, and the caller goes on running.
C8_UnsupportedReturnsError ==
    UnsupportedCall =>
        /\ last.xch = << >>
        /\ last.result.kind = "error"
        /\ cpc # "panicked"

OnlyKeyboard(rm) == ~rm.Keyboard.isNil /\ ~rm.Hide /\ ~rm.ForceReply
OnlyHide(rm) == rm.Keyboard.isNil /\ rm.Hide /\ ~rm.ForceReply
OnlyForceReply(rm) == rm.Keyboard.isNil /\ ~rm.Hide /\ rm.ForceReply
NoShape(rm) == rm.Keyboard.isNil /\ ~rm.Hide /\ ~rm.ForceReply

\* The JSON text expected for the keyboards of the model.
ExpectedKeyboardJSON(k) ==
    IF k.rows = << >> THEN "[]" ELSE "[[\"yes\",\"no\"],[\"maybe\"]]"

\* C7: the form SendMessage posts has no reply_markup field when opts is
\* nil or none of the three shapes is populated (whatever the selective
\* flag), and when exactly one shape is populated it has a reply_markup
\* field whose value is the JSON of that shape.
C7_ReplyMarkupField ==
    last.op = "SendMessage" =>
        LET opts == last.args.opts
            rm   == opts.ReplyMarkup
            form == last.xch[1].form
        IN  /\ Len(last.xch) = 1
            /\ (opts.isNil \/ NoShape(rm)) => "reply_markup" \notin DOMAIN form
            /\ (~opts.isNil /\ OnlyHide(rm)) =>
                   /\ "reply_markup" \in DOMAIN form
                   /\ form.reply_markup =
                          "{\"hide_keyboard\":true,\"selective\":"
                          \o (IF rm.Selective THEN "true" ELSE "false") \o "}"
            /\ (~opts.isNil /\ OnlyForceReply(rm)) =>
                   /\ "reply_markup" \in DOMAIN form
                   /\ form.reply_markup =
                          "{\"force_reply\":true,\"selective\":"
                          \o (IF rm.Selective THEN "true" ELSE "false") \o "}"
            /\ (~opts.isNil /\ OnlyKeyboard(rm)) =>
                   /\ "reply_markup" \in DOMAIN form
                   /\ form.reply_markup =
                          "{\"keyboard\":" \o ExpectedKeyboardJSON(rm.Keyboard)
                          \o ",\"resize_keyboard\":false,\"one_time_keyboard\":"
                          \o (IF rm.OneTime THEN "true" ELSE "false")
                          \o ",\"selective\":"
                          \o (IF rm.Selective THEN "true" ELSE "false") \o "}"

\* SendMessage ran with options whose only populated shape is the
\* hide-keyboard one, and posted it.
C7_Witness ==
    /\ last.op = "SendMessage"
    /\ ~last.args.opts.isNil
    /\ OnlyHide(last.args.opts.ReplyMarkup)
    /\ last.args.opts.ReplyMarkup.Selective
    /\ last.xch[1].form.reply_markup = "{\"hide_keyboard\":true,\"selective\":true}"

RemoteURLPhotoCall ==
    /\ last.op = "SendPhoto"
    /\ ~Exists(last.args.photo) /\ ~IsLocal(last.args.photo)
    /\ IsRemote(last.args.photo)

FetchFailedMessage(st, url) ==
    "Fetch failed (errcode: " \o ToString(st) \o "). Remote URL: '" \o url \o "'"

IsSendPhotoRequest(x) ==
    /\ x.method = "POST"
    /\ x.url = "https://api.telegram.org/bot" \o bot.token \o "/sendPhoto"

\* C9 as claimed: SendPhoto with a remote-URL photo issues the sendPhoto
\* request after every fetch that returned a 2xx status (and a body that
\* could be read), and after a network failure or any other status it issues
\* none and returns an error, which for a status is the fetch-failed error
\* with that status and the URL.
C9_UploadAfterAny2xx ==
    RemoteURLPhotoCall =>
        LET g == last.xch[1] IN
            /\ g.method = "GET" /\ g.url = last.args.photo.FileURL
            /\ (g.resp.kind = "http" /\ g.resp.status \in 200..299 /\ g.resp.readOK) =>
                   /\ Len(last.xch) = 2
                   /\ IsSendPhotoRequest(last.xch[2])
            /\ g.resp.kind = "neterr" =>
                   /\ Len(last.xch) = 1
                   /\ last.result.kind = "error"
            /\ (g.resp.kind = "http" /\ g.resp.status \notin 200..299) =>
                   /\ Len(last.xch) = 1
                   /\ last.result.kind = "error"
                   /\ last.result.msg = FetchFailedMessage(g.resp.status, g.url)

\* C9 as amended: the sendPhoto request is issued only after the fetch, and
\* exactly when the fetch returned status 200 and its body could be read;
\* after any other status (other 2xx included) none is issued and the error
\* is the fetch-failed one with the status and the URL; after a network
\* failure none is issued and the error is the transport's own.
C9_UploadOnlyAfter200 ==
    RemoteURLPhotoCall =>
        LET g == last.xch[1] IN
            /\ g.method = "GET" /\ g.url = last.args.photo.FileURL
            /\ \A i \in ApiExchanges : i = 2 /\ IsSendPhotoRequest(last.xch[i])
            /\ Len(last.xch) = 2 <=>
                   (g.resp.kind = "http" /\ g.resp.status = 200 /\ g.resp.readOK)
            /\ Len(last.xch) = 2 =>
                   last.xch[2].form = [photo |-> "image.jpg",
                                       chat_id |-> ToString(last.args.recipient)]
            /\ (g.resp.kind = "http" /\ g.resp.status # 200) =>
                   /\ last.result.kind = "error"
                   /\ last.result.msg = FetchFailedMessage(g.resp.status, g.url)
            /\ g.resp.kind = "neterr" =>
                   /\ last.result.kind = "error"
                   /\ last.result.type = "*url.Error"
            /\ (g.resp.kind = "http" /\ g.resp.status = 200 /\ ~g.resp.readOK) =>
                   last.result.kind = "error"

\* The URL of a photo was fetched with status 200 and the photo was then
\* uploaded and accepted.
C9_Witness ==
    /\ RemoteURLPhotoCall
    /\ Len(last.xch) = 2
    /\ last.xch[1].resp.status = 200
    /\ last.xch[2].resp = OkResp
    /\ last.result.kind = "nil"

\* C10: SendMessage posts, to <baseURL><token>/sendMessage, a form with the
\* fields chat_id (the recipient in decimal), text, parse_mode (the mode
\* token) and disable_web_page_preview ("true" when preview is false,
\* "false" when it is true), and no other field but reply_markup; recipient
\* 42, "hi", plain, preview=false gives chat_id=42, text=hi, parse_mode=,
\* disable_web_page_preview=true.
C10_SendMessageForm ==
    last.op = "SendMessage" =>
        LET a    == last.args
            x    == last.xch[1]
            form == x.form
        IN  /\ x.method = "POST"
            /\ x.url = "https://api.telegram.org/bot" \o bot.token \o "/sendMessage"
            /\ {"chat_id", "text", "parse_mode", "disable_web_page_preview"}
                   \subseteq DOMAIN form
            /\ DOMAIN form \subseteq
                   {"chat_id", "text", "parse_mode", "disable_web_page_preview",
                    "reply_markup"}
            /\ form.chat_id = ToString(a.recipient)
            /\ form.text = a.message
            /\ form.parse_mode = a.mode
            /\ form.disable_web_page_preview = (IF a.preview THEN "false" ELSE "true")
            /\ (a.recipient = 42 /\ a.message = "hi" /\ a.mode = "" /\ ~a.preview) =>
                   /\ form.chat_id = "42"
                   /\ form.text = "hi"
                   /\ form.parse_mode = ""
                   /\ form.disable_web_page_preview = "true"

\* The scenario: SendMessage(42, "hi", ModeNone, false, nil).
C10_Witness ==
    /\ last.op = "SendMessage"
    /\ last.args.recipient = 42 /\ last.args.message = "hi"
    /\ last.args.mode = "" /\ ~last.args.preview /\ last.args.opts.isNil
    /\ last.xch[1].form =
           [chat_id |-> "42", text |-> "hi", parse_mode |-> "",
            disable_web_page_preview |-> "true"]


\* C11: SetWebhook repeated with the same URL against a backend that
\* answers ok=true returns the same result, success, every time; and once
\* the Bot is constructed no step changes its token or its identity.
C11_Idempotent ==
    \A w \in Webhooks :
        hooks[w].n # "never" => hooks[w].results = {NilError}

C11_BotReadOnly == bot.made => bot' = bot

C11_SetWebhookIdempotentBotReadOnly ==
    /\ []C11_Idempotent
    /\ [][C11_BotReadOnly]_vars

\* SetWebhook has just succeeded again for a URL it had registered before.
C11_Witness ==
    /\ last.op = "SetWebhook"
    /\ last.result = NilError
    /\ hooks[last.args.webhook].n = "repeated"
    /\ bot.made /\ bot.token = "123:ABC"


AcceptedByAPI(x) == x.resp.kind = "json" /\ Field(x.resp.obj, "ok", FALSE)

\* The result of an envelope, when it has one that is not an object.
OtherTypedResult(x) ==
    /\ "result" \in DOMAIN x.resp.obj
    /\ ~IsObject(x.resp.obj.result)

LifecycleSteps ==
    {<<"idle", "starting">>, <<"starting", "serving">>,
     <<"starting", "exited">>, <<"serving", "exited">>}

\* C13: the receiver goes idle, listening (Listen has returned, the
\* listener is not bound yet), serving; deliveries are taken only while
\* serving; the only other state is the exit of the whole process, which a
\* listener that fails to bind or stops serving leads to; after the exit
\* nothing runs, so the listener is never restarted and no consumer waits
\* in a live process for a listener that is gone.
C13_ListenerLifecycle ==
    /\ [](lstate \in {"idle", "starting", "serving", "exited"})
    /\ [][lstate' # lstate => <<lstate, lstate'>> \in LifecycleSteps]_vars
    /\ [][lstate # "exited"]_vars
    /\ [][(\E r \in Req : hst[r] = "none" /\ hst'[r] # "none")
              => lstate = "serving"]_vars

\* The process exited while a handler was waiting for a consumer.
C13_Witness ==
    /\ lstate = "exited"
    /\ \E r \in Req : hst[r] = "sending" /\ InSendq(r)


(* ---------------------- claims: the construction ----------------------- *)

LookupFailed == lookups[1].result # NilError

\* C14: New makes exactly one identity lookup, for its token, and always
\* returns a Bot; when the lookup failed, in any way, the caller gets the
\* Bot with its token and the zero identity and goes on running; from then
\* on the identity never changes and no other lookup is made.
C14_Constructed ==
    IF bot.made
    THEN /\ Len(lookups) = 1
         /\ Len(lookups[1].xch) = 1
         /\ lookups[1].xch[1].url = baseURL \o bot.token \o "/getMe"
         /\ bot.token \in Tokens
         /\ LookupFailed => bot.Info = ZeroUser
         /\ last.op = "getMe" => cpc = "returned"
    ELSE lookups = << >>

C14_OneLookupZeroIdentityOnFailure ==
    /\ []C14_Constructed
    /\ [][bot.made => bot'.Info = bot.Info /\ lookups' = lookups]_vars

\* A Bot made by a lookup the API refused has run a later operation.
C14_Witness ==
    /\ bot.made
    /\ Len(lookups) = 1
    /\ lookups[1].xch[1].resp = UnauthorizedResp
    /\ LookupFailed
    /\ bot.Info = ZeroUser
    /\ last.op = "SendMessage"

=============================================================================
